---- MODULE Spec2Model ----
(***************************************************************************)
(* HAL-9000 resource monitor: the alarm store (alarm_manager.py), the      *)
(* monitoring system (monitoring.py), the curses front end (gui.py) and    *)
(* the command-line program (main.py, monitor.py, utils.py).               *)
(*                                                                         *)
(* Three independent programs share the module's variables; each has its   *)
(* own specifications, which hold the other programs' variables fixed:     *)
(*   SpecStore  AlarmManager driven by its callers (GUI and direct calls)  *)
(*   SpecMon    MonitoringSystem driven by its callers                     *)
(*   SpecCli    main.py: the menu thread and the monitor_loop threads      *)
(*   SpecLoop   main.py where the host, send_email and file writes fail    *)
(*   SpecEval   the two alarm evaluators applied to drawn inputs           *)
(*   SpecLoad   the two loaders started over the alarms.json that is there *)
(*   SpecGui    gui.py: GUI.run and its views on the one GUI thread        *)
(*   SpecGuiFair  SpecGui with a user who goes on using the program        *)
(*   SpecPersist  AlarmManager where no save fails                         *)
(*   SpecStop   main.py over a saved list, without the alarm commands      *)
(*   SpecStopFair  SpecStop under a scheduler that does not halt           *)
(***************************************************************************)
EXTENDS Integers, Sequences, FiniteSets, TLC

(***************************************************************************)
(* Bounds of the model.                                                    *)
(***************************************************************************)
\* Alarms the store may hold at once (the code has no limit).
MaxAlarms == 2
\* Injected collaborator failures (logger, file I/O, host reads) per run.
MaxFaults == 1
\* MonitoringSystem.MAX_HISTORY is 1000 in src/monitoring.py:28; the model
\* scales it down so that eviction happens within the bounds.
MAX_HISTORY == 2
\* Values the host hands out to MonitoringSystem in one run, over all metrics.
MaxPush == 5
\* Changes the menu thread makes to the alarm list of main.py while one
\* check_alarms call is iterating it.
MaxChanges == 1

(***************************************************************************)
(* Python values, tagged with their type so that None, False and 0.0 stay  *)
(* apart.  Percentages are integers (psutil's floats compare with the      *)
(* integer thresholds the same way).                                       *)
(***************************************************************************)
None == [py |-> "None"]
Some(v) == [py |-> "float", v |-> v]
PyBool(b) == [py |-> "bool", v |-> b]
IsNone(x) == x.py = "None"
Val(x) == x.v

\* Python truthiness of an Optional[float]: None and 0.0 are both falsy.
Truthy(x) == ~IsNone(x) /\ Val(x) # 0

\* Readings handed to the evaluators: each metric absent or one of a few values.
Percents == {0, 80, 95}
CpuReadings == {None} \cup {Some(v) : v \in Percents}
MemoryReadings == {None, Some(80)}
DiskReadings == {None, Some(95)}
\* (cpu, memory, disk) readings the callers of the store evaluate: nothing
\* read, all three read, one metric read, a cpu reading of 0.0.
Readings == {<<None, None, None>>, <<Some(95), Some(80), Some(95)>>,
             <<None, Some(80), None>>, <<Some(0), None, None>>,
             <<Some(0), Some(80), Some(95)>>}

\* str.upper() on the type strings the model uses.
upper(s) ==
  CASE s \in {"cpu", "CPU"} -> "CPU"
    [] s = "memory" -> "MEMORY"
    [] s = "disk" -> "DISK"
    [] OTHER -> s

\* (type, threshold) pairs callers hand to AlarmManager.add_alarm: the three
\* kinds, two spellings of one kind, thresholds in range and 0 out of it.
AlarmInputs == {<<"cpu", 70>>, <<"CPU", 100>>, <<"cpu", 0>>,
                <<"memory", 70>>, <<"disk", 90>>}
\* (menu selection, number typed) pairs the user gives GUI.create_alarm.
GuiInputs == {<<0, 90>>, <<0, 70>>, <<0, 0>>, <<1, 70>>, <<2, 101>>}

(***************************************************************************)
(* json.dump / json.load of the alarm list (alarm_manager.py 61-80).       *)
(* The file text is a sequence of JSON objects; an object is a sequence of *)
(* <<key, value>> members in dict order; a number is its decimal digits.   *)
(***************************************************************************)
RECURSIVE ToDigits(_)
ToDigits(n) == IF n < 10 THEN <<n>> ELSE ToDigits(n \div 10) \o <<n % 10>>

RECURSIVE FromDigits(_)
FromDigits(d) ==
  IF Len(d) = 0 THEN 0
  ELSE FromDigits(SubSeq(d, 1, Len(d) - 1)) * 10 + d[Len(d)]

JStr(s) == [j |-> "str", s |-> s]
JInt(n) == [j |-> "num", neg |-> n < 0, digits |-> ToDigits(IF n < 0 THEN -n ELSE n)]
JBool(b) == [j |-> IF b THEN "true" ELSE "false"]

Decode(v) ==
  CASE v.j = "str" -> v.s
    [] v.j = "num" -> IF v.neg THEN -FromDigits(v.digits) ELSE FromDigits(v.digits)
    [] v.j = "true" -> TRUE
    [] v.j = "false" -> FALSE

\* A dump that leaves the "active" member out (as utils.save_alarms does).
DumpAlarm_noactive(a) ==
  << <<"type", JStr(a.type)>>,
     <<"threshold", JInt(a.threshold)>> >>

DumpAlarm(a) ==
  << <<"type", JStr(a.type)>>,
     <<"threshold", JInt(a.threshold)>>,
     <<"active", JBool(a.active)>> >>

\* json.load of one object: a dict; a repeated key keeps its last value.
Member(o, k) == o[CHOOSE i \in 1..Len(o) : o[i][1] = k /\ \A m \in (i+1)..Len(o) : o[m][1] # k]
LoadAlarm(o) == [k \in {o[i][1] : i \in 1..Len(o)} |-> Decode(Member(o, k)[2])]

json_dump(alarms) == [i \in 1..Len(alarms) |-> DumpAlarm(alarms[i])]
json_load(text) == [i \in 1..Len(text) |-> LoadAlarm(text[i])]

\* alarms.json: absent, present with a JSON list, or present and unparsable.
FileMissing == [exists |-> FALSE, valid |-> FALSE, text |-> <<>>]
FileCorrupt == [exists |-> TRUE, valid |-> FALSE, text |-> <<>>]
FileOf(alarms) == [exists |-> TRUE, valid |-> TRUE, text |-> json_dump(alarms)]

(***************************************************************************)
(* State.                                                                  *)
(***************************************************************************)
VARIABLES
  \* AlarmManager (alarm_manager.py)
  alarms,             \* self.alarms: list of dicts {type, threshold, active}
  file,               \* the content of alarms.json
  \* MonitoringSystem (monitoring.py)
  logger,             \* self.logger: "None" or "Logger"
  monitoring_active,  \* self.monitoring_active
  cpu_usage,          \* self.cpu_usage: history
  memory_usage,       \* self.memory_usage
  disk_usage,         \* self.disk_usage
  pushed,             \* every value appended to each history, in order (observer)
  \* main.py
  m_alarms,           \* alarms: list of Alarm(alarm_type, threshold)
  active_monitoring,  \* the flag of main() that monitor_loop tests
  monitoring_thread,  \* the Thread stop_monitoring joins; 0 is None
  th,                 \* the monitor_loop threads: position and locals
  main_pc,            \* position of the menu thread
  \* gui.py
  gui_pc,             \* position of the GUI thread (GUI.run and the views)
  warning_history,    \* warning_history of show_monitoring_interface
  clock,              \* evaluation cycles of the view so far: their timestamp
  key_pending,        \* a 'q' keypress waits in the input queue
  \* observers
  lastOp,             \* the last operation called: name, arguments, outcome
  faults              \* collaborator failures injected so far

storeVars == <<alarms, file>>
monVars == <<logger, monitoring_active, cpu_usage, memory_usage, disk_usage, pushed>>
cliVars == <<m_alarms, active_monitoring, monitoring_thread, th, main_pc>>
guiVars == <<gui_pc, warning_history, clock, key_pending>>
vars == <<alarms, file, logger, monitoring_active, cpu_usage, memory_usage,
          disk_usage, pushed, m_alarms, active_monitoring, monitoring_thread,
          th, main_pc, gui_pc, warning_history, clock, key_pending, lastOp, faults>>

\* The GUI thread before GUI.run, or a program without the GUI.
InitOther_Gui ==
  gui_pc = "menu" /\ warning_history = <<>> /\ clock = 0 /\ key_pending = FALSE

\* An operation's record: raised tells that an exception left the operation,
\* ret is the value it returned otherwise, saved is what save_alarms did in it
\* ("not_called" when it was not reached).
Op(name, args, raised, ret, saved) ==
  [op |-> name, args |-> args, raised |-> raised, ret |-> ret, saved |-> saved]

\* Outcomes of a collaborator call; a failure uses up one of MaxFaults.
IoOutcomes == {"ok", "open_fails", "write_fails"}
Faults(n) == /\ faults + n <= MaxFaults
             /\ faults' = faults + n
Fault(failed) == Faults(IF failed THEN 1 ELSE 0)

(***************************************************************************)
(* AlarmManager (alarm_manager.py).                                        *)
(***************************************************************************)
\* save_alarms: rewrite the file; every exception is swallowed.  A failing
\* open leaves the file as it was, a failing write leaves it truncated.
save_alarms(list, old, io) ==
  CASE io = "ok" -> FileOf(list)
    [] io = "open_fails" -> old
    [] io = "write_fails" -> FileCorrupt

\* The dict add_alarm appends.
NewAlarm(alarm_type, threshold) ==
  [type |-> alarm_type, threshold |-> threshold, active |-> TRUE]

\* check_alarms: the stored alarms the readings trigger, in store order.
Triggers(alarm, cpu, memory, disk) ==
  LET alarm_type == upper(alarm.type)
      threshold == alarm.threshold
  IN  IF alarm_type = "CPU" /\ Truthy(cpu) /\ Val(cpu) >= threshold THEN TRUE
      ELSE IF alarm_type = "MEMORY" /\ Truthy(memory) /\ Val(memory) >= threshold THEN TRUE
      ELSE IF alarm_type = "DISK" /\ Truthy(disk) /\ Val(disk) >= threshold THEN TRUE
      ELSE FALSE

AlarmManager_check_alarms(list, cpu, memory, disk) ==
  SelectSeq(list, LAMBDA alarm : Triggers(alarm, cpu, memory, disk))

\* get_alarms: sorted(self.alarms, key=type.upper()).  sorted is stable, so
\* the alarms of one key keep their store order; the keys compare as
\* strings, "CPU" < "DISK" < "MEMORY".
get_alarms(list) ==
  SelectSeq(list, LAMBDA alarm : upper(alarm.type) = "CPU")
    \o SelectSeq(list, LAMBDA alarm : upper(alarm.type) = "DISK")
    \o SelectSeq(list, LAMBDA alarm : upper(alarm.type) = "MEMORY")

\* list.pop(index), index counted from 0.
Pop(list, index) == SubSeq(list, 1, index) \o SubSeq(list, index + 2, Len(list))

\* What save_alarms did in an operation that logs and then saves.
Saved(log_ok, io) == IF log_ok THEN io ELSE "not_called"

\* add_alarm(alarm_type, threshold): append, log, save.  No validation.
\* A raising logger leaves the method before save_alarms.
add_alarm(alarm_type, threshold, log_ok, io) ==
  /\ Len(alarms) < MaxAlarms
  /\ Fault(~log_ok \/ io # "ok")
  /\ log_ok \/ io = "ok"
  /\ alarms' = Append(alarms, NewAlarm(alarm_type, threshold))
  /\ file' = IF log_ok THEN save_alarms(alarms', file, io) ELSE file

\* remove_alarm(index): pop, log, save when the index is in range; the method
\* has no return statement, so it hands back None on both paths.
remove_alarm(index, log_ok, io) ==
  IF 0 <= index /\ index < Len(alarms)
    THEN /\ Fault(~log_ok \/ io # "ok")
         /\ log_ok \/ io = "ok"
         /\ alarms' = Pop(alarms, index)
         /\ file' = IF log_ok THEN save_alarms(alarms', file, io) ELSE file
    ELSE /\ log_ok /\ io = "ok"
         /\ UNCHANGED <<alarms, file, faults>>

remove_alarm_saved(index, log_ok, io) ==
  IF 0 <= index /\ index < Len(alarms) THEN Saved(log_ok, io) ELSE "not_called"

\* The file is there, can be opened for reading and parses.
Loads(read_ok) == file.exists /\ file.valid /\ read_ok

\* load_alarms, as AlarmManager.__init__ calls it on a fresh object: the
\* parsed file; [] and a save when the file is missing; [] and a save in the
\* except branch when open or json.load raises.
load_alarms(read_ok, io) ==
  /\ Faults((IF read_ok THEN 0 ELSE 1) + (IF io = "ok" THEN 0 ELSE 1))
  /\ file.exists \/ read_ok
  /\ IF Loads(read_ok)
       THEN /\ io = "ok"
            /\ alarms' = json_load(file.text)
            /\ file' = file
       ELSE /\ alarms' = <<>>
            /\ file' = save_alarms(<<>>, file, io)

(***************************************************************************)
(* The callers of AlarmManager: one action per call.                       *)
(***************************************************************************)
\* A direct call of AlarmManager.add_alarm.
AddAlarm(alarm_type, threshold, log_ok, io) ==
  /\ add_alarm(alarm_type, threshold, log_ok, io)
  /\ lastOp' = Op("add_alarm", <<alarm_type, threshold>>, ~log_ok, None, Saved(log_ok, io))
  /\ UNCHANGED <<monVars, cliVars, guiVars>>

\* A direct call of AlarmManager.remove_alarm.
RemoveAlarm(index, log_ok, io) ==
  /\ remove_alarm(index, log_ok, io)
  /\ lastOp' = Op("remove_alarm", <<index>>, ~log_ok, None,
                  remove_alarm_saved(index, log_ok, io))
  /\ UNCHANGED <<monVars, cliVars, guiVars>>

\* A fresh AlarmManager is constructed over the file (a restart).
Reload(read_ok, io) ==
  /\ load_alarms(read_ok, io)
  /\ lastOp' = Op("load_alarms", <<read_ok>>, FALSE, None,
                  IF Loads(read_ok) THEN "not_called" ELSE io)
  /\ UNCHANGED <<monVars, cliVars, guiVars>>

\* A caller evaluates the alarms against a reading (gui.py 310-311).
CheckAlarms(cpu, memory, disk) ==
  /\ lastOp' = Op("check_alarms", <<cpu, memory, disk>>, FALSE,
                  AlarmManager_check_alarms(alarms, cpu, memory, disk), "not_called")
  /\ UNCHANGED <<alarms, file, faults, monVars, cliVars, guiVars>>

\* A caller asks for the listing.
GetAlarms ==
  /\ lastOp' = Op("get_alarms", <<>>, FALSE, get_alarms(alarms), "not_called")
  /\ UNCHANGED <<alarms, file, faults, monVars, cliVars, guiVars>>

\* GUI.create_alarm: int() of the typed text, the range check, add_alarm.
\* The text is numeric (its value is threshold) or not a number at all.
create_alarm(alarm_type, numeric, threshold, log_ok, io) ==
  /\ IF ~numeric
       THEN /\ log_ok /\ io = "ok"
            /\ lastOp' = Op("create_alarm", <<alarm_type>>, FALSE,
                            "Invalid input", "not_called")
            /\ UNCHANGED <<alarms, file, faults>>
       ELSE IF 1 <= threshold /\ threshold <= 100
         THEN /\ add_alarm(alarm_type, threshold, log_ok, io)
              /\ lastOp' = Op("create_alarm", <<alarm_type, threshold>>, ~log_ok,
                              "Alarm created", Saved(log_ok, io))
         ELSE /\ log_ok /\ io = "ok"
              /\ lastOp' = Op("create_alarm", <<alarm_type, threshold>>, FALSE,
                              "Invalid threshold", "not_called")
              /\ UNCHANGED <<alarms, file, faults>>
  /\ UNCHANGED <<monVars, cliVars, guiVars>>

\* GUI.remove_alarm: the listing of get_alarms is shown, the arrow keys move
\* current_selection within it, Enter shows "Alarm removed: <the listing's
\* entry at current_selection>" and then calls
\* alarm_manager.remove_alarm(current_selection).  ret is the entry the
\* confirmation names.  With no alarms the view shows "No alarms configured"
\* and returns; leaving with 'q' changes nothing and is a stuttering step.
GuiRemoveAlarm(current_selection, log_ok, io) ==
  /\ LET listing == get_alarms(alarms)
     IN  IF listing = <<>>
           THEN /\ current_selection = 0 /\ log_ok /\ io = "ok"
                /\ lastOp' = Op("GUI.remove_alarm", <<>>, FALSE,
                                "No alarms configured", "not_called")
                /\ UNCHANGED <<alarms, file, faults>>
           ELSE /\ current_selection \in 0..(Len(listing) - 1)
                /\ remove_alarm(current_selection, log_ok, io)
                /\ lastOp' = Op("GUI.remove_alarm", <<current_selection>>, ~log_ok,
                                listing[current_selection + 1],
                                remove_alarm_saved(current_selection, log_ok, io))
  /\ UNCHANGED <<monVars, cliVars, guiVars>>

\* show_create_alarm_menu: the selected entry's type (gui.py 388).
GuiType(current_selection) ==
  CASE current_selection = 0 -> "cpu"
    [] current_selection = 1 -> "memory"
    [] current_selection = 2 -> "disk"

\* Indexes callers hand to remove_alarm: in range and one off either end.
Indexes == -1..MaxAlarms

InitOther_Store ==
  /\ logger = "Logger" /\ monitoring_active = FALSE
  /\ cpu_usage = <<>> /\ memory_usage = <<>> /\ disk_usage = <<>>
  /\ pushed = [cpu |-> <<>>, memory |-> <<>>, disk |-> <<>>]
  /\ m_alarms = <<>> /\ active_monitoring = FALSE /\ monitoring_thread = 0
  /\ th = <<>> /\ main_pc = "menu"
  /\ InitOther_Gui

\* AlarmManager(logger) constructed where no alarms.json exists: load_alarms
\* sets [] and saves it.
InitStore ==
  /\ alarms = <<>>
  /\ file = FileOf(<<>>)
  /\ lastOp = Op("__init__", <<>>, FALSE, None, "ok")
  /\ faults = 0
  /\ InitOther_Store

NextStore ==
  \/ \E a \in AlarmInputs, log_ok \in BOOLEAN, io \in IoOutcomes :
       AddAlarm(a[1], a[2], log_ok, io)
  \/ \E g \in GuiInputs, numeric \in BOOLEAN, log_ok \in BOOLEAN, io \in IoOutcomes :
       create_alarm(GuiType(g[1]), numeric, g[2], log_ok, io)
  \/ \E i \in Indexes, log_ok \in BOOLEAN, io \in IoOutcomes : RemoveAlarm(i, log_ok, io)
  \/ \E read_ok \in BOOLEAN, io \in IoOutcomes : Reload(read_ok, io)
  \/ \E r \in Readings : CheckAlarms(r[1], r[2], r[3])
  \/ GetAlarms
  \/ \E current_selection \in 0..(MaxAlarms - 1), log_ok \in BOOLEAN, io \in IoOutcomes :
       GuiRemoveAlarm(current_selection, log_ok, io)

SpecStore == InitStore /\ [][NextStore]_vars

(***************************************************************************)
(* Properties of the alarm store.                                          *)
(***************************************************************************)
\* The reading for an alarm's resource type, if the type is one of the three.
Metrics == {"CPU", "MEMORY", "DISK"}
ReadingFor(alarm, cpu, memory, disk) ==
  CASE upper(alarm.type) = "CPU" -> cpu
    [] upper(alarm.type) = "MEMORY" -> memory
    [] upper(alarm.type) = "DISK" -> disk

\* The alarm's type matches a metric whose value is present and >= threshold.
Matches(alarm, cpu, memory, disk) ==
  /\ upper(alarm.type) \in Metrics
  /\ ~IsNone(ReadingFor(alarm, cpu, memory, disk))
  /\ Val(ReadingFor(alarm, cpu, memory, disk)) >= alarm.threshold

\* C1: AlarmManager.check_alarms returns exactly the stored alarms whose type
\* matches a metric whose value is present and >= the threshold, each once,
\* in store order.
C1_BulkReturnsMatching ==
  (lastOp.op = "check_alarms" /\ faults = 0) =>
    lastOp.ret = SelectSeq(alarms, LAMBDA a :
                   Matches(a, lastOp.args[1], lastOp.args[2], lastOp.args[3]))

OutOfRange(threshold) == threshold < 1 \/ threshold > 100

\* C7: an add with a threshold outside [1,100] fails with an invalid-threshold
\* outcome and leaves the list and the file unchanged, through the GUI and
\* through AlarmManager.add_alarm itself (stated for the runs in which no
\* collaborator fails).
C7_AddRejectsOutOfRange ==
  [][/\ (lastOp'.op = "add_alarm" /\ faults' = 0 /\ OutOfRange(lastOp'.args[2])) =>
          (lastOp'.raised /\ alarms' = alarms /\ file' = file)
     /\ (lastOp'.op = "create_alarm" /\ Len(lastOp'.args) = 2
            /\ OutOfRange(lastOp'.args[2])) =>
          (lastOp'.ret = "Invalid threshold" /\ alarms' = alarms /\ file' = file)]_vars

\* C8: remove_alarm with an index out of range changes nothing, raises
\* nothing and hands back False, which tells it from a removal (stated for
\* the runs in which no collaborator fails).
C8_RemoveOutOfRangeReturnsFalse ==
  [][(lastOp'.op = "remove_alarm" /\ faults' = 0
        /\ (lastOp'.args[1] < 0 \/ lastOp'.args[1] >= Len(alarms))) =>
       (/\ alarms' = alarms /\ file' = file
        /\ ~lastOp'.raised
        /\ lastOp'.ret = PyBool(FALSE))]_vars

\* C9: a reload that follows an operation whose save wrote the file, and
\* that can read the file, yields the same records (type, threshold, active)
\* in the same order.
C9_RoundTrip ==
  [][(lastOp'.op = "load_alarms" /\ lastOp'.args[1] /\ lastOp.saved = "ok") =>
       alarms' = alarms]_vars

\* C9 witness: an alarm added to the empty store has been reloaded, with no
\* failure anywhere, as exactly one record.
C9_Witness ==
  /\ lastOp.op = "load_alarms" /\ lastOp.args[1] /\ faults = 0
  /\ alarms = <<[type |-> "cpu", threshold |-> 70, active |-> TRUE]>>

\* C17: every stored alarm has a threshold in [1,100] and a type that is one
\* of the three kinds in one canonical spelling: two stored alarms of a kind
\* never differ in the spelling of their type.
C17_StoredAlarmsAreCanonical ==
  /\ \A k \in 1..Len(alarms) :
       /\ ~OutOfRange(alarms[k].threshold)
       /\ upper(alarms[k].type) \in Metrics
  /\ \A k, m \in 1..Len(alarms) :
       upper(alarms[k].type) = upper(alarms[m].type) => alarms[k].type = alarms[m].type

\* The spelling half of C17 alone, on stores whose thresholds are in range.
StoredTypesAreCanonical ==
  (\A k \in 1..Len(alarms) : ~OutOfRange(alarms[k].threshold)) =>
    \A k, m \in 1..Len(alarms) :
      upper(alarms[k].type) = upper(alarms[m].type) => alarms[k].type = alarms[m].type

\* The rank of a type among the three kinds.
TypeRank(type) ==
  CASE upper(type) = "CPU" -> 1
    [] upper(type) = "DISK" -> 2
    [] upper(type) = "MEMORY" -> 3

\* C18: get_alarms returns the stored alarms ordered by (resource type,
\* threshold): alarms of one type in ascending threshold order.
C18_ListingSortedByTypeAndThreshold ==
  lastOp.op = "get_alarms" =>
    /\ Len(lastOp.ret) = Len(alarms)
    /\ \A k \in 1..Len(alarms) :
         Cardinality({m \in 1..Len(alarms) : alarms[m] = alarms[k]})
           = Cardinality({m \in 1..Len(lastOp.ret) : lastOp.ret[m] = alarms[k]})
    /\ \A k, m \in 1..Len(lastOp.ret) :
         k < m =>
           \/ TypeRank(lastOp.ret[k].type) < TypeRank(lastOp.ret[m].type)
           \/ /\ TypeRank(lastOp.ret[k].type) = TypeRank(lastOp.ret[m].type)
              /\ lastOp.ret[k].threshold <= lastOp.ret[m].threshold

\* C20: a failing logger does not fail the operation that called it: every
\* add_alarm, and every remove_alarm of an index in range, whose save does
\* not fail returns normally with the file holding the new list, and every
\* start_monitoring and stop_monitoring returns normally.
C20_LoggerFailureDoesNotFailCore ==
  [][/\ (/\ \/ lastOp'.op = "add_alarm"
              \/ (lastOp'.op = "remove_alarm" /\ 0 <= lastOp'.args[1]
                     /\ lastOp'.args[1] < Len(alarms))
          /\ lastOp'.saved \notin {"open_fails", "write_fails"}) =>
          (~lastOp'.raised /\ file' = FileOf(alarms'))
     /\ (lastOp'.op = "start_monitoring") => (~lastOp'.raised /\ monitoring_active')
     /\ (lastOp'.op = "stop_monitoring") => (~lastOp'.raised /\ ~monitoring_active')]_vars

\* C21: in the GUI remove flow the alarm taken out of the store is the one
\* the confirmation names, the entry shown at the selected position: the
\* store after the call is the store before it without that entry, the
\* other alarms in their order.
Without(list, alarm) ==
  {Pop(list, k - 1) : k \in {n \in 1..Len(list) : list[n] = alarm}}

C21_GuiRemovesTheAlarmShown ==
  [][(lastOp'.op = "GUI.remove_alarm" /\ lastOp'.args # <<>>)
       => alarms' \in Without(alarms, lastOp'.ret)]_vars

(***************************************************************************)
(* MonitoringSystem (monitoring.py).                                       *)
(***************************************************************************)
\* Values psutil hands to MonitoringSystem.
HostValues == {80, 95}

\* append, then keep the last MAX_HISTORY values (lines 69-71, 84-86, 99-101).
push_keepfirst(history, usage) ==
  IF Len(history) + 1 > MAX_HISTORY THEN SubSeq(Append(history, usage), 1, MAX_HISTORY)
  ELSE Append(history, usage)

push(history, usage) ==
  LET h == Append(history, usage)
  IN  IF Len(h) > MAX_HISTORY THEN SubSeq(h, Len(h) - MAX_HISTORY + 1, Len(h)) ELSE h

TotalPushed == Len(pushed.cpu) + Len(pushed.memory) + Len(pushed.disk)

\* The record of a MonitoringSystem call: args tells whether the host was read.
MonOp(name, sampled, raised, ret) == Op(name, <<sampled>>, raised, ret, "not_called")
NoReading == <<None, None, None>>

\* self.logger.log_event guarded by "if self.logger": nothing to fail without
\* a logger.
GuardedLog(log_ok) ==
  IF logger = "Logger" THEN Fault(~log_ok) ELSE log_ok /\ UNCHANGED faults

start_monitoring(log_ok) ==
  /\ monitoring_active' = TRUE
  /\ GuardedLog(log_ok)
  /\ lastOp' = MonOp("start_monitoring", FALSE, ~log_ok, None)
  /\ UNCHANGED <<logger, cpu_usage, memory_usage, disk_usage, pushed, storeVars, cliVars, guiVars>>

stop_monitoring(log_ok) ==
  /\ monitoring_active' = FALSE
  /\ GuardedLog(log_ok)
  /\ lastOp' = MonOp("stop_monitoring", FALSE, ~log_ok, None)
  /\ UNCHANGED <<logger, cpu_usage, memory_usage, disk_usage, pushed, storeVars, cliVars, guiVars>>

\* get_cpu_usage: None when inactive; else read (an exception of psutil
\* leaves the method), append, trim, return.
get_cpu_usage(host_ok, usage) ==
  /\ IF ~monitoring_active
       THEN /\ host_ok
            /\ lastOp' = MonOp("get_cpu_usage", FALSE, FALSE, None)
            /\ UNCHANGED <<cpu_usage, pushed, faults>>
       ELSE /\ Fault(~host_ok)
            /\ IF host_ok
                 THEN /\ TotalPushed < MaxPush
                      /\ cpu_usage' = push(cpu_usage, usage)
                      /\ pushed' = [pushed EXCEPT !.cpu = Append(@, usage)]
                      /\ lastOp' = MonOp("get_cpu_usage", TRUE, FALSE, Some(usage))
                 ELSE /\ lastOp' = MonOp("get_cpu_usage", TRUE, TRUE, None)
                      /\ UNCHANGED <<cpu_usage, pushed>>
  /\ UNCHANGED <<logger, monitoring_active, memory_usage, disk_usage, storeVars, cliVars, guiVars>>

get_memory_usage(host_ok, usage) ==
  /\ IF ~monitoring_active
       THEN /\ host_ok
            /\ lastOp' = MonOp("get_memory_usage", FALSE, FALSE, None)
            /\ UNCHANGED <<memory_usage, pushed, faults>>
       ELSE /\ Fault(~host_ok)
            /\ IF host_ok
                 THEN /\ TotalPushed < MaxPush
                      /\ memory_usage' = push(memory_usage, usage)
                      /\ pushed' = [pushed EXCEPT !.memory = Append(@, usage)]
                      /\ lastOp' = MonOp("get_memory_usage", TRUE, FALSE, Some(usage))
                 ELSE /\ lastOp' = MonOp("get_memory_usage", TRUE, TRUE, None)
                      /\ UNCHANGED <<memory_usage, pushed>>
  /\ UNCHANGED <<logger, monitoring_active, cpu_usage, disk_usage, storeVars, cliVars, guiVars>>

get_disk_usage(host_ok, usage) ==
  /\ IF ~monitoring_active
       THEN /\ host_ok
            /\ lastOp' = MonOp("get_disk_usage", FALSE, FALSE, None)
            /\ UNCHANGED <<disk_usage, pushed, faults>>
       ELSE /\ Fault(~host_ok)
            /\ IF host_ok
                 THEN /\ TotalPushed < MaxPush
                      /\ disk_usage' = push(disk_usage, usage)
                      /\ pushed' = [pushed EXCEPT !.disk = Append(@, usage)]
                      /\ lastOp' = MonOp("get_disk_usage", TRUE, FALSE, Some(usage))
                 ELSE /\ lastOp' = MonOp("get_disk_usage", TRUE, TRUE, None)
                      /\ UNCHANGED <<disk_usage, pushed>>
  /\ UNCHANGED <<logger, monitoring_active, cpu_usage, memory_usage, storeVars, cliVars, guiVars>>

\* get_alarm_data: self.logger.log_event is called without the "if
\* self.logger" guard, on the inactive path (line 139, outside the try), in
\* the try (line 147) and in the except handler (line 155).  Without a logger
\* each of them raises AttributeError; the one in the try is caught and the
\* handler's raises again.
get_alarm_data(host_ok, log_ok, handler_log_ok, cpu, memory, disk) ==
  /\ IF ~monitoring_active
       THEN /\ host_ok /\ handler_log_ok
            /\ IF logger = "Logger"
                 THEN /\ Fault(~log_ok)
                      /\ lastOp' = MonOp("get_alarm_data", FALSE, ~log_ok, NoReading)
                 ELSE /\ log_ok /\ UNCHANGED faults
                      /\ lastOp' = MonOp("get_alarm_data", FALSE, TRUE, NoReading)
       ELSE IF logger = "Logger"
         THEN IF host_ok /\ log_ok
           THEN /\ handler_log_ok /\ UNCHANGED faults
                /\ lastOp' = MonOp("get_alarm_data", TRUE, FALSE,
                                   <<Some(cpu), Some(memory), Some(disk)>>)
           ELSE /\ host_ok \/ log_ok
                /\ Faults(IF handler_log_ok THEN 1 ELSE 2)
                /\ lastOp' = MonOp("get_alarm_data", TRUE, ~handler_log_ok, NoReading)
         ELSE /\ log_ok /\ handler_log_ok
              /\ Fault(~host_ok)
              /\ lastOp' = MonOp("get_alarm_data", TRUE, TRUE, NoReading)
  /\ UNCHANGED <<monVars, storeVars, cliVars>>

\* get_live_data with the cpu append moved up between the reads: a read that
\* fails after it leaves the cpu value in its history.
get_live_data_partial(host_ok, log_ok, cpu, memory, disk) ==
  /\ IF ~monitoring_active
       THEN /\ host_ok /\ log_ok
            /\ lastOp' = MonOp("get_live_data", FALSE, FALSE, NoReading)
            /\ UNCHANGED <<cpu_usage, memory_usage, disk_usage, pushed, faults>>
       ELSE IF host_ok
         THEN /\ log_ok
              /\ TotalPushed + 3 <= MaxPush
              /\ cpu_usage' = push(cpu_usage, cpu)
              /\ memory_usage' = push(memory_usage, memory)
              /\ disk_usage' = push(disk_usage, disk)
              /\ pushed' = [cpu |-> Append(pushed.cpu, cpu),
                            memory |-> Append(pushed.memory, memory),
                            disk |-> Append(pushed.disk, disk)]
              /\ lastOp' = MonOp("get_live_data", TRUE, FALSE,
                                 <<Some(cpu), Some(memory), Some(disk)>>)
              /\ UNCHANGED faults
         ELSE /\ (logger # "Logger") => log_ok
              /\ Faults(IF log_ok THEN 1 ELSE 2)
              /\ TotalPushed + 1 <= MaxPush
              /\ cpu_usage' = push(cpu_usage, cpu)
              /\ pushed' = [pushed EXCEPT !.cpu = Append(@, cpu)]
              /\ lastOp' = MonOp("get_live_data", TRUE, ~log_ok, NoReading)
              /\ UNCHANGED <<memory_usage, disk_usage>>
  /\ UNCHANGED <<logger, monitoring_active, storeVars, cliVars>>

\* get_live_data: the three reads come before the three appends, so a failing
\* read appends nothing; the handler logs under the guard and returns Nones.
get_live_data(host_ok, log_ok, cpu, memory, disk) ==
  /\ IF ~monitoring_active
       THEN /\ host_ok /\ log_ok
            /\ lastOp' = MonOp("get_live_data", FALSE, FALSE, NoReading)
            /\ UNCHANGED <<cpu_usage, memory_usage, disk_usage, pushed, faults>>
       ELSE IF host_ok
         THEN /\ log_ok
              /\ TotalPushed + 3 <= MaxPush
              /\ cpu_usage' = push(cpu_usage, cpu)
              /\ memory_usage' = push(memory_usage, memory)
              /\ disk_usage' = push(disk_usage, disk)
              /\ pushed' = [cpu |-> Append(pushed.cpu, cpu),
                            memory |-> Append(pushed.memory, memory),
                            disk |-> Append(pushed.disk, disk)]
              /\ lastOp' = MonOp("get_live_data", TRUE, FALSE,
                                 <<Some(cpu), Some(memory), Some(disk)>>)
              /\ UNCHANGED faults
         ELSE /\ (logger # "Logger") => log_ok
              /\ Faults(IF log_ok THEN 1 ELSE 2)
              /\ lastOp' = MonOp("get_live_data", TRUE, ~log_ok, NoReading)
              /\ UNCHANGED <<cpu_usage, memory_usage, disk_usage, pushed>>
  /\ UNCHANGED <<logger, monitoring_active, storeVars, cliVars>>

\* A direct call of get_alarm_data, outside the GUI views.
ReadAlarmData(host_ok, log_ok, handler_log_ok, cpu, memory, disk) ==
  /\ get_alarm_data(host_ok, log_ok, handler_log_ok, cpu, memory, disk)
  /\ UNCHANGED guiVars

\* A direct call of get_live_data, outside the GUI views.
ReadLiveData(host_ok, log_ok, cpu, memory, disk) ==
  /\ get_live_data(host_ok, log_ok, cpu, memory, disk)
  /\ UNCHANGED guiVars

\* MonitoringSystem(logger) after __init__; logger defaults to None.
InitMon ==
  /\ logger \in {"None", "Logger"}
  /\ monitoring_active = FALSE
  /\ cpu_usage = <<>> /\ memory_usage = <<>> /\ disk_usage = <<>>
  /\ pushed = [cpu |-> <<>>, memory |-> <<>>, disk |-> <<>>]
  /\ lastOp = Op("__init__", <<>>, FALSE, None, "not_called")
  /\ faults = 0
  /\ alarms = <<>> /\ file = FileOf(<<>>)
  /\ m_alarms = <<>> /\ active_monitoring = FALSE /\ monitoring_thread = 0
  /\ th = <<>> /\ main_pc = "menu"
  /\ InitOther_Gui

NextMon ==
  \/ \E log_ok \in BOOLEAN : start_monitoring(log_ok)
  \/ \E log_ok \in BOOLEAN : stop_monitoring(log_ok)
  \/ \E host_ok \in BOOLEAN, usage \in HostValues : get_cpu_usage(host_ok, usage)
  \/ \E host_ok \in BOOLEAN, usage \in HostValues : get_memory_usage(host_ok, usage)
  \/ \E host_ok \in BOOLEAN, usage \in HostValues : get_disk_usage(host_ok, usage)
  \/ \E host_ok \in BOOLEAN, log_ok \in BOOLEAN, handler_log_ok \in BOOLEAN,
        cpu \in HostValues, memory \in HostValues, disk \in HostValues :
       ReadAlarmData(host_ok, log_ok, handler_log_ok, cpu, memory, disk)
  \/ \E host_ok \in BOOLEAN, log_ok \in BOOLEAN,
        cpu \in HostValues, memory \in HostValues, disk \in HostValues :
       ReadLiveData(host_ok, log_ok, cpu, memory, disk)

SpecMon == InitMon /\ [][NextMon]_vars

(***************************************************************************)
(* Properties of the monitoring system.                                    *)
(***************************************************************************)
\* The last n elements of a sequence.
LastN(seq, n) == SubSeq(seq, IF Len(seq) > n THEN Len(seq) - n + 1 ELSE 1, Len(seq))

\* C4: each history holds at most MAX_HISTORY values, and they are the most
\* recent values pushed for its metric, in push order.
C4_HistoryIsLastPushed ==
  /\ Len(cpu_usage) <= MAX_HISTORY
  /\ Len(memory_usage) <= MAX_HISTORY
  /\ Len(disk_usage) <= MAX_HISTORY
  /\ cpu_usage = LastN(pushed.cpu, MAX_HISTORY)
  /\ memory_usage = LastN(pushed.memory, MAX_HISTORY)
  /\ disk_usage = LastN(pushed.disk, MAX_HISTORY)

\* C4 witness: more than MAX_HISTORY values were pushed for one metric, the
\* evicted one differing from the ones kept, after pushes by get_live_data
\* and by get_cpu_usage.
C4_Witness ==
  /\ Len(pushed.cpu) > MAX_HISTORY
  /\ Len(pushed.memory) > 0
  /\ pushed.cpu[1] # pushed.cpu[Len(pushed.cpu)]
  /\ lastOp.op = "get_cpu_usage"

ReadOps == {"get_live_data", "get_alarm_data", "get_cpu_usage",
            "get_memory_usage", "get_disk_usage"}

\* C10: while monitoring is stopped, each read operation returns all-absent
\* values, reads nothing from the host, raises nothing and leaves the
\* histories as they are (stated for the runs in which no collaborator fails).
C10_StoppedReadsAreInactive ==
  [][(~monitoring_active /\ lastOp'.op \in ReadOps /\ faults' = 0) =>
       (/\ ~lastOp'.raised
        /\ lastOp'.args = <<FALSE>>
        /\ lastOp'.ret = (IF lastOp'.op \in {"get_live_data", "get_alarm_data"}
                            THEN NoReading ELSE None)
        /\ cpu_usage' = cpu_usage
        /\ memory_usage' = memory_usage
        /\ disk_usage' = disk_usage)]_vars

LoopIds == {1, 2}
\* (menu choice, level typed) pairs of "3. Skapa larm"; level 0 is refused.
MenuInputs == {<<"1", 70>>, <<"1", 90>>, <<"1", 0>>}
\* Readings monitor.py hands to monitor_loop.
CpuValues == {80, 95}
MemValues == {80}
DiskValues == {95}

\* alarm_types of the create branch (main.py 118).
alarm_types(alarm_choice) ==
  CASE alarm_choice = "1" -> "CPU"
    [] alarm_choice = "2" -> "Memory"
    [] alarm_choice = "3" -> "Disk"

Alarm(alarm_type, threshold) == [alarm_type |-> alarm_type, threshold |-> threshold]

\* utils.save_alarms: the dict written for an Alarm, and the file after the
\* call.  There is no try: a failing open or write raises to the caller (a
\* failing open leaves the file as it was, a failing write truncated).
DumpMenuAlarm(alarm) ==
  << <<"alarm_type", JStr(alarm.alarm_type)>>,
     <<"threshold", JInt(alarm.threshold)>> >>

MenuFileOf(list) ==
  [exists |-> TRUE, valid |-> TRUE, text |-> [k \in 1..Len(list) |-> DumpMenuAlarm(list[k])]]

utils_save_alarms(list, old, io) ==
  CASE io = "ok" -> MenuFileOf(list)
    [] io = "open_fails" -> old
    [] io = "write_fails" -> FileCorrupt

\* utils.load_alarms: [] when there is no file; else json.load and an Alarm
\* per item.  There is no try: an unparsable file raises, and so does an item
\* without the key 'alarm_type' or 'threshold'.
utils_load_raises(f) ==
  /\ f.exists
  /\ \/ ~f.valid
     \/ \E k \in 1..Len(f.text) :
          ~({"alarm_type", "threshold"} \subseteq DOMAIN LoadAlarm(f.text[k]))

utils_load_alarms(f) ==
  IF ~f.exists \/ utils_load_raises(f) THEN <<>>
  ELSE [k \in 1..Len(f.text) |->
          Alarm(LoadAlarm(f.text[k]).alarm_type, LoadAlarm(f.text[k]).threshold)]

\* thresholds.sort(reverse=True)
RECURSIVE SortDesc(_)
SortDesc(seq) ==
  IF seq = <<>> THEN <<>>
  ELSE LET i == CHOOSE k \in 1..Len(seq) : \A m \in 1..Len(seq) : seq[k] >= seq[m]
       IN  <<seq[i]>> \o SortDesc(SubSeq(seq, 1, i - 1) \o SubSeq(seq, i + 1, Len(seq)))

\* The loop over the sorted thresholds: the first one the value reaches is
\* alerted (print, log_event, send_email), then break.
RECURSIVE FirstAlert(_, _)
FirstAlert(thresholds, value) ==
  IF thresholds = <<>> THEN <<>>
  ELSE IF value >= Head(thresholds) THEN <<Head(thresholds)>>
  ELSE FirstAlert(Tail(thresholds), value)

\* check_alarms from "if not relevant_alarms" on, given the thresholds of the
\* relevant alarms: the alerts raised, or a TypeError where None meets ">=".
Evaluate(relevant, value) ==
  IF relevant = <<>> THEN [raised |-> FALSE, alerts |-> <<>>]
  ELSE IF IsNone(value) THEN [raised |-> TRUE, alerts |-> <<>>]
  ELSE [raised |-> FALSE, alerts |-> FirstAlert(SortDesc(relevant), Val(value))]

\* The thresholds of [alarm for alarm in alarms if alarm.alarm_type == alarm_type].
RelevantThresholds(list, alarm_type) ==
  LET rel == SelectSeq(list, LAMBDA alarm : alarm.alarm_type = alarm_type)
  IN  [k \in 1..Len(rel) |-> rel[k].threshold]

\* check_alarms(alarm_type, value) on a list nobody changes meanwhile.
check_alarms(list, alarm_type, value) ==
  Evaluate(RelevantThresholds(list, alarm_type), value)

\* A monitor_loop thread: its position, the readings of this cycle not yet
\* checked (cpu, memory, disk in this order), the list iterator's index and
\* the thresholds collected by the running check_alarms call, and (observer)
\* the values the shared list has had since that call read it first.
IdleThread == [pc |-> "idle", vals |-> <<>>, i |-> 0, relevant |-> <<>>, seen |-> {}]
CheckedType(vals) ==
  CASE Len(vals) = 3 -> "CPU"
    [] Len(vals) = 2 -> "Memory"
    [] Len(vals) = 1 -> "Disk"

\* A change of the list is seen by every check_alarms call that is under way.
Observe(list) ==
  [t \in LoopIds |->
     IF th[t].pc = "check" /\ th[t].i > 0
       THEN [th[t] EXCEPT !.seen = @ \cup {list}]
       ELSE th[t]]

\* The menu thread may change the list: no call under way has seen
\* MaxChanges changes yet.
MayChange ==
  \A t \in LoopIds :
    (th[t].pc = "check" /\ th[t].i > 0) => Cardinality(th[t].seen) <= MaxChanges

\* "1. Starta overvakning": start_monitoring sets the flag and starts a new
\* thread, whatever the flag was.
MenuStart ==
  /\ main_pc = "menu"
  /\ \E t \in LoopIds :
       /\ th[t].pc = "idle"
       /\ \A u \in LoopIds : u < t => th[u].pc # "idle"
       /\ active_monitoring' = TRUE
       /\ th' = [th EXCEPT ![t].pc = "while"]
       /\ monitoring_thread' = t
  /\ UNCHANGED <<m_alarms, main_pc, lastOp, faults, storeVars, monVars, guiVars>>

\* "3. Skapa larm": a level in 1..100 is appended and the list saved,
\* another level is refused.  The branch catches ValueError only: an
\* exception of save_alarms leaves main().
MenuCreate(alarm_choice, level, io) ==
  /\ main_pc = "menu"
  /\ IF 1 <= level /\ level <= 100
       THEN /\ Len(m_alarms) < MaxAlarms
            /\ MayChange
            /\ Fault(io # "ok")
            /\ m_alarms' = Append(m_alarms, Alarm(alarm_types(alarm_choice), level))
            /\ th' = Observe(m_alarms')
            /\ file' = utils_save_alarms(m_alarms', file, io)
            /\ main_pc' = IF io = "ok" THEN "menu" ELSE "raised"
            /\ lastOp' = Op("menu.create", <<alarm_choice, level>>, io # "ok", None, io)
       ELSE /\ io = "ok"
            /\ lastOp' = Op("menu.create", <<alarm_choice, level>>, FALSE, None, "not_called")
            /\ UNCHANGED <<m_alarms, th, file, main_pc, faults>>
  /\ UNCHANGED <<active_monitoring, monitoring_thread, alarms, monVars, guiVars>>

\* "5. Ta bort larm": a number in 1..len(alarms) pops that alarm and the
\* list is saved, with no more of a try than in the create branch.
MenuRemove(alarm_idx, io) ==
  /\ main_pc = "menu"
  /\ m_alarms # <<>>
  /\ IF 1 <= alarm_idx /\ alarm_idx <= Len(m_alarms)
       THEN /\ MayChange
            /\ Fault(io # "ok")
            /\ m_alarms' = Pop(m_alarms, alarm_idx - 1)
            /\ th' = Observe(m_alarms')
            /\ file' = utils_save_alarms(m_alarms', file, io)
            /\ main_pc' = IF io = "ok" THEN "menu" ELSE "raised"
            /\ lastOp' = Op("menu.remove", <<alarm_idx>>, io # "ok", None, io)
       ELSE /\ io = "ok"
            /\ lastOp' = Op("menu.remove", <<alarm_idx>>, FALSE, None, "not_called")
            /\ UNCHANGED <<m_alarms, th, file, main_pc, faults>>
  /\ UNCHANGED <<active_monitoring, monitoring_thread, alarms, monVars, guiVars>>

\* "7. Avsluta": stop_monitoring when the flag is set, then sys.exit().
\* stop_monitoring clears the flag and joins monitoring_thread, the thread
\* the last start_monitoring created.
MenuExit ==
  /\ main_pc = "menu"
  /\ IF active_monitoring
       THEN /\ active_monitoring' = FALSE
            /\ main_pc' = IF monitoring_thread # 0 THEN "join" ELSE "stopped"
       ELSE /\ main_pc' = "exited"
            /\ UNCHANGED active_monitoring
  /\ UNCHANGED <<m_alarms, monitoring_thread, th, lastOp, faults, storeVars, monVars, guiVars>>

\* The thread of "6. Starta overvakningslage" as a value of monitoring_thread;
\* the monitor_loop threads are LoopIds, None is 0.
ModeThread == 3

\* The module global active_monitoring that monitoring_mode declares with
\* "global" and print_status tests: True from the head of monitoring_mode
\* to the Enter that ends it.  It is another variable than the flag of
\* main() that start_monitoring, stop_monitoring and monitor_loop share.
global_active_monitoring == main_pc = "mode"

\* monitoring_mode with "nonlocal active_monitoring" in place of "global".
MenuMode_nonlocal ==
  /\ main_pc = "menu"
  /\ main_pc' = "mode"
  /\ monitoring_thread' = ModeThread
  /\ active_monitoring' = TRUE
  /\ UNCHANGED <<m_alarms, th, lastOp, faults, storeVars, monVars, guiVars>>

\* "6. Starta overvakningslage": log_event, then monitoring_mode runs in a
\* thread that main() assigns to monitoring_thread, starts and joins.  The
\* mode sets the module global, starts print_status and waits in input().
MenuMode ==
  /\ main_pc = "menu"
  /\ main_pc' = "mode"
  /\ monitoring_thread' = ModeThread
  /\ UNCHANGED <<m_alarms, active_monitoring, th, lastOp, faults, storeVars,
                 monVars, guiVars>>

\* Enter in the mode: the module global is cleared, print_status is joined,
\* monitoring_mode returns, the join of main() returns to the menu.
ModeEnter ==
  /\ main_pc = "mode"
  /\ main_pc' = "menu"
  /\ UNCHANGED <<m_alarms, active_monitoring, monitoring_thread, th, lastOp, faults,
                 storeVars, monVars, guiVars>>

\* monitoring_thread.join() returns once that thread has ended, by leaving
\* its loop or by an exception (the thread of the monitoring mode has ended
\* when main() is back at the menu); then stop_monitoring returns and the
\* menu thread exits.
JoinReturns ==
  /\ main_pc = "join"
  /\ IF monitoring_thread = ModeThread THEN TRUE
     ELSE th[monitoring_thread].pc \in {"done", "raised"}
  /\ main_pc' = "stopped"
  /\ UNCHANGED <<m_alarms, active_monitoring, monitoring_thread, th, lastOp, faults,
                 storeVars, monVars, guiVars>>

\* The loop test as "while True": the flag is never looked at.
LoopTest_forever(t) ==
  /\ th[t].pc = "while"
  /\ th' = [th EXCEPT ![t].pc = "sample"]
  /\ UNCHANGED <<m_alarms, active_monitoring, monitoring_thread, main_pc, lastOp,
                 faults, storeVars, monVars, guiVars>>

\* while active_monitoring:
LoopTest(t) ==
  /\ th[t].pc = "while"
  /\ th' = [th EXCEPT ![t].pc = IF active_monitoring THEN "sample" ELSE "done"]
  /\ UNCHANGED <<m_alarms, active_monitoring, monitoring_thread, main_pc, lastOp,
                 faults, storeVars, monVars, guiVars>>

\* The three reads of the cycle (the cpu read blocks for a second).  The
\* loop has no try: an exception of a read leaves monitor_loop, and the
\* thread ends with it.
LoopSample(t, host_ok, cpu_usage_, mem_usage, disk_usage_) ==
  /\ th[t].pc = "sample"
  /\ Fault(~host_ok)
  /\ th' = [th EXCEPT ![t] =
              IF host_ok
                THEN [pc |-> "check",
                      vals |-> <<Some(cpu_usage_), Some(mem_usage), Some(disk_usage_)>>,
                      i |-> 0, relevant |-> <<>>, seen |-> {}]
                ELSE [pc |-> "raised", vals |-> <<>>, i |-> 0, relevant |-> <<>>,
                      seen |-> {}]]
  /\ UNCHANGED <<m_alarms, active_monitoring, monitoring_thread, main_pc, lastOp,
                 storeVars, monVars, guiVars>>

\* One step of the list comprehension of check_alarms: the iterator reads
\* alarms[i] of the shared list as it is now.
CheckIter(t) ==
  /\ th[t].pc = "check"
  /\ th[t].i < Len(m_alarms)
  /\ LET alarm == m_alarms[th[t].i + 1]
     IN  th' = [th EXCEPT ![t].i = @ + 1,
                          ![t].relevant = IF alarm.alarm_type = CheckedType(th[t].vals)
                                            THEN Append(@, alarm.threshold) ELSE @,
                          ![t].seen = IF th[t].i = 0 THEN {m_alarms} ELSE @]
  /\ UNCHANGED <<m_alarms, active_monitoring, monitoring_thread, main_pc, lastOp,
                 faults, storeVars, monVars, guiVars>>

\* The iterator finds the list exhausted; the rest of check_alarms runs on
\* what was collected.  After the disk check the thread sleeps and is back at
\* the loop test.  send_email is called for the alert without a try, here and
\* in monitor_loop: its exception ends the thread.
CheckEval(t, mail_ok) ==
  /\ th[t].pc = "check"
  /\ th[t].i >= Len(m_alarms)
  /\ LET value == Head(th[t].vals)
         out == Evaluate(th[t].relevant, value)
         rest == Tail(th[t].vals)
         raised == out.raised \/ ~mail_ok
     IN  /\ mail_ok \/ out.alerts # <<>>
         /\ Fault(~mail_ok)
         /\ lastOp' = Op("main.check_alarms", <<>>, raised, out.alerts, "not_called")
         /\ th' = [th EXCEPT ![t] =
                     IF raised
                       THEN [pc |-> "raised", vals |-> <<>>, i |-> 0,
                             relevant |-> <<>>, seen |-> {}]
                       ELSE [pc |-> IF rest = <<>> THEN "while" ELSE "check",
                             vals |-> rest, i |-> 0, relevant |-> <<>>, seen |-> {}]]
  /\ UNCHANGED <<m_alarms, active_monitoring, monitoring_thread, main_pc,
                 storeVars, monVars, guiVars>>

\* main() at the menu: no alarms.json, monitoring off, no thread.
InitCli ==
  /\ m_alarms = <<>>
  /\ active_monitoring = FALSE
  /\ monitoring_thread = 0
  /\ th = [t \in LoopIds |-> IdleThread]
  /\ main_pc = "menu"
  /\ lastOp = Op("main", <<>>, FALSE, None, "not_called")
  /\ faults = 0
  /\ alarms = <<>> /\ file = FileMissing
  /\ logger = "Logger" /\ monitoring_active = FALSE
  /\ cpu_usage = <<>> /\ memory_usage = <<>> /\ disk_usage = <<>>
  /\ pushed = [cpu |-> <<>>, memory |-> <<>>, disk |-> <<>>]
  /\ InitOther_Gui

NextCli ==
  \/ MenuStart
  \/ \E m \in MenuInputs : MenuCreate(m[1], m[2], "ok")
  \/ \E alarm_idx \in 0..(MaxAlarms + 1) : MenuRemove(alarm_idx, "ok")
  \/ MenuExit
  \/ MenuMode
  \/ ModeEnter
  \/ JoinReturns
  \/ \E t \in LoopIds : LoopTest(t)
  \/ \E t \in LoopIds, c \in CpuValues, m \in MemValues, d \in DiskValues :
       LoopSample(t, TRUE, c, m, d)
  \/ \E t \in LoopIds : CheckIter(t)
  \/ \E t \in LoopIds : CheckEval(t, TRUE)

\* The menu thread and the monitor_loop threads where no collaborator fails.
SpecCli == InitCli /\ [][NextCli]_vars

\* The same program where the host reads, send_email and the writes of
\* alarms.json may fail.
NextLoop ==
  \/ MenuStart
  \/ \E m \in MenuInputs, io \in IoOutcomes : MenuCreate(m[1], m[2], io)
  \/ \E alarm_idx \in 1..MaxAlarms, io \in IoOutcomes : MenuRemove(alarm_idx, io)
  \/ MenuExit
  \/ MenuMode
  \/ ModeEnter
  \/ JoinReturns
  \/ \E t \in LoopIds : LoopTest(t)
  \/ \E t \in LoopIds, host_ok \in BOOLEAN, c \in CpuValues, m \in MemValues,
        d \in DiskValues :
       LoopSample(t, host_ok, c, m, d)
  \/ \E t \in LoopIds : CheckIter(t)
  \/ \E t \in LoopIds, mail_ok \in BOOLEAN : CheckEval(t, mail_ok)

SpecLoop == InitCli /\ [][NextLoop]_vars

(***************************************************************************)
(* Properties of main.py.                                                  *)
(***************************************************************************)
SetMax(S) == CHOOSE x \in S : \A y \in S : x >= y

\* The thresholds of the alarms of a type that a value reaches.
Qualifying(list, alarm_type, value) ==
  {list[k].threshold : k \in {j \in 1..Len(list) :
      list[j].alarm_type = alarm_type /\ list[j].threshold <= value}}

\* One alert, for the highest qualifying threshold; none when none qualifies.
HighestWins(list, alarm_type, value, alerts) ==
  IF Qualifying(list, alarm_type, value) = {} THEN alerts = <<>>
  ELSE alerts = <<SetMax(Qualifying(list, alarm_type, value))>>

\* C3: a check_alarms call of monitor_loop raises exactly one alert, for the
\* highest threshold of the store's alarms of that type that the value
\* reaches, and none when no such alarm qualifies; the store being taken at
\* any one instant of the call.
C3_PushRaisesHighestOnly ==
  [][\A t \in LoopIds :
       (th[t].pc = "check" /\ th'[t].vals # th[t].vals) =>
         \E list \in (IF th[t].i = 0 THEN {m_alarms} ELSE th[t].seen) :
           HighestWins(list, CheckedType(th[t].vals), Val(Head(th[t].vals)), lastOp'.ret)]_vars

\* Where nobody changes the list during a call of check_alarms, the call
\* alerts for the highest qualifying threshold of that one list.
HighestWinsOnAnUnchangedStore ==
  [][\A t \in LoopIds :
       (th[t].pc = "check" /\ th'[t].vals # th[t].vals
          /\ (th[t].i > 0 => th[t].seen = {m_alarms})) =>
         HighestWins(m_alarms, CheckedType(th[t].vals), Val(Head(th[t].vals)), lastOp'.ret)]_vars

Running(t) == th[t].pc \notin {"idle", "done", "raised"}

\* C5: once stop_monitoring has returned, no monitor_loop thread takes a step
\* other than leaving its loop.
C5_NothingRunsAfterStop ==
  [][main_pc = "stopped" =>
       \A t \in LoopIds : th'[t] # th[t] => th'[t].pc = "done"]_vars

\* C6: at most one monitor_loop exists at any time.
C6_AtMostOneLoop ==
  Cardinality({t \in LoopIds : Running(t)}) <= 1

(***************************************************************************)
(* The two evaluators applied to drawn inputs: AlarmManager.check_alarms   *)
(* and check_alarms of main.py, on every alarm list their programs can     *)
(* build within the bounds and every reading, absent ones included.        *)
(***************************************************************************)
\* The sequences of at most n elements of S.
SeqsUpTo(S, n) == UNION {[1..k -> S] : k \in 0..n}

StoreLists == SeqsUpTo({NewAlarm(a[1], a[2]) : a \in AlarmInputs}, MaxAlarms)
MenuLists ==
  SeqsUpTo({Alarm(alarm_types(m[1]), m[2]) :
              m \in {x \in MenuInputs : 1 <= x[2] /\ x[2] <= 100}}, MaxAlarms)
MenuTypes == {"CPU", "Memory", "Disk"}

\* check_alarms(alarm_type, value) of main.py, called on the list as it is.
EvalPush(alarm_type, value) ==
  /\ lastOp' = Op("main.check_alarms", <<alarm_type, value>>,
                  check_alarms(m_alarms, alarm_type, value).raised,
                  check_alarms(m_alarms, alarm_type, value).alerts, "not_called")
  /\ UNCHANGED <<faults, storeVars, monVars, cliVars, guiVars>>

InitEval ==
  /\ alarms \in StoreLists
  /\ file = FileOf(alarms)
  /\ m_alarms \in MenuLists
  /\ active_monitoring = FALSE /\ monitoring_thread = 0
  /\ th = [t \in LoopIds |-> IdleThread]
  /\ main_pc = "menu"
  /\ lastOp = Op("__init__", <<>>, FALSE, None, "not_called")
  /\ faults = 0
  /\ logger = "Logger" /\ monitoring_active = FALSE
  /\ cpu_usage = <<>> /\ memory_usage = <<>> /\ disk_usage = <<>>
  /\ pushed = [cpu |-> <<>>, memory |-> <<>>, disk |-> <<>>]
  /\ InitOther_Gui

NextEval ==
  \/ \E cpu \in CpuReadings, memory \in MemoryReadings, disk \in DiskReadings :
       CheckAlarms(cpu, memory, disk)
  \/ \E alarm_type \in MenuTypes, value \in CpuReadings : EvalPush(alarm_type, value)

SpecEval == InitEval /\ [][NextEval]_vars

C11_LoopEndsOnlyOnStop ==
  [][\A t \in LoopIds : (Running(t) /\ th'[t].pc \in {"done", "raised"}) =>
       ~active_monitoring]_vars

\* C13: every check_alarms call of monitor_loop evaluates the alarms of its
\* type of the list as it was at one instant of the call.
C13_EvaluatesOneSnapshot ==
  [][\A t \in LoopIds :
       (th[t].pc = "check" /\ th'[t].vals # th[t].vals) =>
         \E list \in (IF th[t].i = 0 THEN {m_alarms} ELSE th[t].seen) :
           th[t].relevant = RelevantThresholds(list, CheckedType(th[t].vals))]_vars

SaveFailed == {"open_fails", "write_fails"}

\* AlarmManager keeps the mutation and swallows the failure of its save.
AlarmManagerSwallowsSaveFailure ==
  [][(lastOp'.op \in {"add_alarm", "remove_alarm"} /\ lastOp'.saved \in SaveFailed) =>
       (~lastOp'.raised /\ alarms' # alarms)]_vars

\* C15: where the save of an add or a remove fails, the change of the list
\* in memory is kept and no error reaches the caller: the program goes on,
\* in AlarmManager and in the create and remove branches of main.py.
C15_PersistFailureIsSwallowed ==
  [][/\ (lastOp'.op \in {"add_alarm", "remove_alarm"} /\ lastOp'.saved \in SaveFailed) =>
          (~lastOp'.raised /\ alarms' # alarms)
     /\ (lastOp'.op \in {"menu.create", "menu.remove"} /\ lastOp'.saved \in SaveFailed) =>
          (~lastOp'.raised /\ m_alarms' # m_alarms /\ main_pc' = "menu")]_vars

(***************************************************************************)
(* Startup over the alarms.json that is there: AlarmManager.__init__ and   *)
(* load_alarms of utils.py at the head of main().                          *)
(***************************************************************************)
\* The files a start may find: none, an unparsable one, one that
\* AlarmManager wrote, one that main.py wrote.
Files ==
  {FileMissing, FileCorrupt} \cup {FileOf(l) : l \in StoreLists}
    \cup {MenuFileOf(l) : l \in MenuLists}

\* alarms = load_alarms() of main(): an exception ends the program before
\* the menu.
MainLoad ==
  /\ main_pc = "boot"
  /\ m_alarms' = utils_load_alarms(file)
  /\ main_pc' = IF utils_load_raises(file) THEN "raised" ELSE "menu"
  /\ lastOp' = Op("utils.load_alarms", <<>>, utils_load_raises(file), None, "not_called")
  /\ UNCHANGED <<active_monitoring, monitoring_thread, th, faults, storeVars,
                 monVars, guiVars>>

InitLoad ==
  /\ file \in Files
  /\ alarms = <<>>
  /\ m_alarms = <<>> /\ active_monitoring = FALSE /\ monitoring_thread = 0
  /\ th = <<>> /\ main_pc = "boot"
  /\ lastOp = Op("start", <<>>, FALSE, None, "not_called")
  /\ faults = 0
  /\ logger = "Logger" /\ monitoring_active = FALSE
  /\ cpu_usage = <<>> /\ memory_usage = <<>> /\ disk_usage = <<>>
  /\ pushed = [cpu |-> <<>>, memory |-> <<>>, disk |-> <<>>]
  /\ InitOther_Gui

NextLoad ==
  \/ \E read_ok \in BOOLEAN, io \in IoOutcomes : Reload(read_ok, io)
  \/ MainLoad

SpecLoad == InitLoad /\ [][NextLoad]_vars

\* C14: a load that finds alarms.json missing or unparsable yields an empty
\* list and raises nothing, in AlarmManager.load_alarms and in load_alarms
\* of utils.py.
C14_MissingOrCorruptLoadsEmpty ==
  [][/\ (lastOp'.op = "load_alarms" /\ (~file.exists \/ ~file.valid)) =>
          (alarms' = <<>> /\ ~lastOp'.raised)
     /\ (lastOp'.op = "utils.load_alarms" /\ (~file.exists \/ ~file.valid)) =>
          (m_alarms' = <<>> /\ ~lastOp'.raised)]_vars

\* AlarmManager.load_alarms alone does fall back to the empty list.
AlarmManagerLoadsEmpty ==
  [][(lastOp'.op = "load_alarms" /\ (~file.exists \/ ~file.valid)) =>
       (alarms' = <<>> /\ ~lastOp'.raised)]_vars

(***************************************************************************)
(* main.py started over the alarms.json an earlier run saved, with the     *)
(* start, mode and exit commands, under a scheduler that does not halt the  *)
(* program: while a monitor_loop thread or a pending join can take a step, *)
(* one of them does.  Every read and every send_email returns.             *)
(***************************************************************************)
\* The lists load_alarms finds at the head of main().
StopLists == {<<>>, <<Alarm("CPU", 90)>>, <<Alarm("CPU", 70), Alarm("CPU", 90)>>}

InitStop ==
  /\ m_alarms \in StopLists
  /\ file = IF m_alarms = <<>> THEN FileMissing ELSE MenuFileOf(m_alarms)
  /\ active_monitoring = FALSE
  /\ monitoring_thread = 0
  /\ th = [t \in LoopIds |-> IdleThread]
  /\ main_pc = "menu"
  /\ lastOp = Op("main", <<>>, FALSE, <<>>, "not_called")
  /\ faults = 0
  /\ alarms = <<>>
  /\ logger = "Logger" /\ monitoring_active = FALSE
  /\ cpu_usage = <<>> /\ memory_usage = <<>> /\ disk_usage = <<>>
  /\ pushed = [cpu |-> <<>>, memory |-> <<>>, disk |-> <<>>]
  /\ InitOther_Gui

LoopStep(t) ==
  \/ LoopTest(t)
  \/ \E c \in CpuValues, m \in MemValues, d \in DiskValues : LoopSample(t, TRUE, c, m, d)
  \/ CheckIter(t)
  \/ CheckEval(t, TRUE)

Progress == JoinReturns \/ \E t \in LoopIds : LoopStep(t)

NextStop == MenuStart \/ MenuMode \/ ModeEnter \/ MenuExit \/ Progress

SpecStop == InitStop /\ [][NextStop]_vars

SpecStopFair == SpecStop /\ WF_vars(Progress)

\* C25: stop_monitoring terminates.  Once it has cleared the flag and waits
\* in join, no loop begins another cycle, and the join returns.
C25_StopTerminates ==
  /\ [][\A t \in LoopIds :
         (main_pc \in {"join", "stopped"} /\ th[t].pc = "while")
           => th'[t].pc \in {"while", "done"}]_vars
  /\ (main_pc = "join") ~> (main_pc = "stopped")

\* C25 witness: stop_monitoring has returned from the join of a loop that
\* had evaluated alarms and left through its loop test.
C25_Witness ==
  /\ main_pc = "stopped"
  /\ monitoring_thread \in LoopIds
  /\ th[monitoring_thread].pc = "done"
  /\ lastOp.op = "main.check_alarms"
  /\ lastOp.ret # <<>>

(***************************************************************************)
(* AlarmManager where every save succeeds: add_alarm and remove_alarm      *)
(* calls whose open and json.dump do not fail; the logger may.             *)
(***************************************************************************)
NextPersist ==
  \/ \E a \in AlarmInputs, log_ok \in BOOLEAN : AddAlarm(a[1], a[2], log_ok, "ok")
  \/ \E i \in Indexes, log_ok \in BOOLEAN : RemoveAlarm(i, log_ok, "ok")

SpecPersist == InitStore /\ [][NextPersist]_vars

\* C23: with no failure of a save, whenever an add_alarm or remove_alarm
\* call has returned the file holds the list in memory, the same records in
\* the same order.
C23_FileEqualsMemoryAtReturn ==
  (lastOp.op \in {"add_alarm", "remove_alarm"} /\ ~lastOp.raised) =>
    file = FileOf(alarms)

\* The same where the logger has not failed either.
FileEqualsMemoryWithoutFailures ==
  (lastOp.op \in {"add_alarm", "remove_alarm"} /\ faults = 0) =>
    file = FileOf(alarms)

\* main.py: after a create or remove command whose save did not fail the
\* file holds the list of main().
MenuFileEqualsMemory ==
  (lastOp.op \in {"menu.create", "menu.remove"} /\ lastOp.saved = "ok") =>
    file = MenuFileOf(m_alarms)

(***************************************************************************)
(* gui.py: GUI.run and its two views, on the one thread that reads keys.   *)
(***************************************************************************)
\* Evaluation cycles of show_monitoring_interface in one run.
MaxCycles == 3
\* warning_history[:8]
WindowSize == 8

\* The warning text of an alarm: the timestamp of the cycle, the alarm's
\* type and its threshold.
Warning(timestamp, alarm) ==
  [timestamp |-> timestamp, type |-> alarm.type, threshold |-> alarm.threshold]

\* history.insert(0, warning)
InsertFirst(history, warning) == <<warning>> \o history

\* for alarm in triggered_alarms: insert its warning unless that very text
\* is in the history.
RECURSIVE InsertWarnings(_, _, _)
InsertWarnings(history, triggered_alarms, timestamp) ==
  IF triggered_alarms = <<>> THEN history
  ELSE LET warning == Warning(timestamp, Head(triggered_alarms))
           h == IF \E k \in 1..Len(history) : history[k] = warning
                  THEN history ELSE InsertFirst(history, warning)
       IN  InsertWarnings(h, Tail(triggered_alarms), timestamp)

\* warning_history[:8]
Window(history) ==
  IF Len(history) > WindowSize THEN SubSeq(history, 1, WindowSize) ELSE history

Views == {"data", "data_sampling", "data_key", "iface", "iface_sampling", "iface_key"}

\* Enter on "Start Monitoring".
GuiStart ==
  /\ gui_pc = "menu"
  /\ start_monitoring(TRUE)

\* Enter on "Create Alarm", a type chosen and a number typed.
GuiCreate(current_selection, threshold) ==
  /\ gui_pc = "menu"
  /\ create_alarm(GuiType(current_selection), TRUE, threshold, TRUE, "ok")

\* Enter on "List Active Monitoring" while monitoring is active: the loop of
\* show_monitoring_data is entered.
OpenData ==
  /\ gui_pc = "menu"
  /\ monitoring_active
  /\ gui_pc' = "data"
  /\ UNCHANGED <<warning_history, clock, key_pending, lastOp, faults,
                 storeVars, monVars, cliVars>>

\* The loop calls get_live_data: psutil.cpu_percent(interval=1) blocks the
\* calling thread for a second.
DataBegin ==
  /\ gui_pc = "data"
  /\ gui_pc' = "data_sampling"
  /\ UNCHANGED <<warning_history, clock, key_pending, lastOp, faults,
                 storeVars, monVars, cliVars>>

\* get_live_data returns: a None among the values leaves the view.
DataSample(host_ok, cpu, memory, disk) ==
  /\ gui_pc = "data_sampling"
  /\ get_live_data(host_ok, TRUE, cpu, memory, disk)
  /\ gui_pc' = IF \E k \in 1..3 : IsNone(lastOp'.ret[k]) THEN "menu" ELSE "data_key"
  /\ UNCHANGED <<warning_history, clock, key_pending>>

\* getch() without delay: 'q' leaves the view, no key goes round the loop.
DataGetch ==
  /\ gui_pc = "data_key"
  /\ gui_pc' = IF key_pending THEN "menu" ELSE "data"
  /\ key_pending' = FALSE
  /\ UNCHANGED <<warning_history, clock, lastOp, faults, storeVars, monVars, cliVars>>

\* Enter on "Start Monitoring Interface" while monitoring is active.
OpenIface ==
  /\ gui_pc = "menu"
  /\ monitoring_active
  /\ gui_pc' = "iface"
  /\ warning_history' = <<>>
  /\ UNCHANGED <<clock, key_pending, lastOp, faults, storeVars, monVars, cliVars>>

\* The top of the loop: once check_interval has elapsed get_alarm_data is
\* called (it blocks like get_live_data), else the screen is drawn at once.
IfaceTop(elapsed) ==
  /\ gui_pc = "iface"
  /\ gui_pc' = IF elapsed THEN "iface_sampling" ELSE "iface_key"
  /\ UNCHANGED <<warning_history, clock, key_pending, lastOp, faults,
                 storeVars, monVars, cliVars>>

\* get_alarm_data returns, check_alarms evaluates, the warnings of the
\* triggered alarms are inserted under this cycle's timestamp.  Cycles are
\* check_interval apart, so their timestamps differ.
IfaceCheck(host_ok, cpu, memory, disk) ==
  /\ gui_pc = "iface_sampling"
  /\ clock < MaxCycles
  /\ get_alarm_data(host_ok, TRUE, TRUE, cpu, memory, disk)
  /\ clock' = clock + 1
  /\ LET triggered_alarms ==
           AlarmManager_check_alarms(alarms, lastOp'.ret[1], lastOp'.ret[2], lastOp'.ret[3])
     IN  warning_history' =
           IF triggered_alarms = <<>> THEN warning_history
           ELSE Window(InsertWarnings(warning_history, triggered_alarms, clock'))
  /\ gui_pc' = "iface_key"
  /\ UNCHANGED key_pending

IfaceGetch ==
  /\ gui_pc = "iface_key"
  /\ gui_pc' = IF key_pending THEN "menu" ELSE "iface"
  /\ key_pending' = FALSE
  /\ UNCHANGED <<warning_history, clock, lastOp, faults, storeVars, monVars, cliVars>>

\* The user presses 'q' while a view is shown.
PressQ ==
  /\ gui_pc \in Views
  /\ ~key_pending
  /\ key_pending' = TRUE
  /\ UNCHANGED <<gui_pc, warning_history, clock, lastOp, faults,
                 storeVars, monVars, cliVars>>

\* Enter on "Exit", 'q' or '0' in the menu: run() returns.
GuiExit ==
  /\ gui_pc = "menu"
  /\ gui_pc' = "exited"
  /\ UNCHANGED <<warning_history, clock, key_pending, lastOp, faults,
                 storeVars, monVars, cliVars>>

\* main() of gui.py: Logger(), AlarmManager(logger) where no alarms.json
\* exists, MonitoringSystem(logger), GUI(...).run().
InitGui ==
  /\ InitOther_Gui
  /\ alarms = <<>> /\ file = FileOf(<<>>)
  /\ logger = "Logger" /\ monitoring_active = FALSE
  /\ cpu_usage = <<>> /\ memory_usage = <<>> /\ disk_usage = <<>>
  /\ pushed = [cpu |-> <<>>, memory |-> <<>>, disk |-> <<>>]
  /\ m_alarms = <<>> /\ active_monitoring = FALSE /\ monitoring_thread = 0
  /\ th = <<>> /\ main_pc = "menu"
  /\ lastOp = Op("__init__", <<>>, FALSE, None, "ok")
  /\ faults = 0

\* What the user and the GUI thread do short of leaving the program.
GuiStays ==
  \/ GuiStart
  \/ \E g \in GuiInputs : GuiCreate(g[1], g[2])
  \/ OpenData
  \/ DataBegin
  \/ \E host_ok \in BOOLEAN, cpu \in HostValues, memory \in HostValues, disk \in HostValues :
       DataSample(host_ok, cpu, memory, disk)
  \/ DataGetch
  \/ OpenIface
  \/ \E elapsed \in BOOLEAN : IfaceTop(elapsed)
  \/ \E host_ok \in BOOLEAN, cpu \in HostValues, memory \in HostValues, disk \in HostValues :
       IfaceCheck(host_ok, cpu, memory, disk)
  \/ IfaceGetch
  \/ PressQ

NextGui == GuiStays \/ GuiExit

SpecGui == InitGui /\ [][NextGui]_vars

\* The same program with a user who goes on using it: some step other than
\* leaving the program is taken whenever one is possible.
SpecGuiFair == SpecGui /\ WF_vars(GuiStays)

(***************************************************************************)
(* Properties of the GUI.                                                  *)
(***************************************************************************)
\* C12: the warning window never holds two entries for the same (resource
\* type, threshold) pair.
C12_WindowHasNoDuplicatePair ==
  \A i, j \in 1..Len(warning_history) :
    (i # j) => ~(/\ warning_history[i].type = warning_history[j].type
                /\ warning_history[i].threshold = warning_history[j].threshold)

\* C16: no keypress waits while the thread that polls for input is inside
\* the blocking sample of the live data view.
C16_KeypressNeverBehindSample ==
  ~(key_pending /\ gui_pc = "data_sampling")

\* No step of the GUI program takes monitoring from active to inactive.
GuiNeverStops == [][monitoring_active => monitoring_active']_vars

\* C22: an evaluation cycle of the live alert view adds at most one warning
\* per resource type to the window, and the one it adds is for the highest
\* threshold of that type the sampled value meets.
CycleWarnings(history, timestamp, metric) ==
  {k \in 1..Len(history) :
     history[k].timestamp = timestamp /\ upper(history[k].type) = metric}

C22_OneWarningPerTypePerCycle ==
  [][(gui_pc = "iface_sampling" /\ gui_pc' = "iface_key") =>
       \A metric \in Metrics :
         LET added == CycleWarnings(warning_history', clock', metric)
             met == {alarms[n].threshold : n \in
                       {i \in 1..Len(alarms) :
                          /\ upper(alarms[i].type) = metric
                          /\ Matches(alarms[i], lastOp'.ret[1], lastOp'.ret[2],
                                     lastOp'.ret[3])}}
         IN  /\ Cardinality(added) <= 1
             /\ \A k \in added :
                  \A threshold \in met : warning_history'[k].threshold >= threshold]_vars

\* C26: the Monitoring State changes only through start and stop.  The
\* flag of MonitoringSystem changes in start_monitoring and stop_monitoring
\* only; the flag of main() changes only where start_monitoring creates a
\* loop thread or stop_monitoring is entered from the menu; and a step that
\* enters, runs or leaves a view (the monitoring mode of main.py, the live
\* views of the GUI) leaves both flags as they are.
ThreadStarted == \E t \in DOMAIN th : th[t].pc = "idle" /\ th'[t].pc = "while"

C27_EvaluatedSampleIsInHistory ==
  [][(gui_pc = "iface_sampling" /\ gui_pc' = "iface_key" /\ lastOp'.ret # NoReading) =>
       (/\ pushed'.cpu = Append(pushed.cpu, Val(lastOp'.ret[1]))
        /\ pushed'.memory = Append(pushed.memory, Val(lastOp'.ret[2]))
        /\ pushed'.disk = Append(pushed.disk, Val(lastOp'.ret[3]))
        /\ cpu_usage' = push(cpu_usage, Val(lastOp'.ret[1]))
        /\ memory_usage' = push(memory_usage, Val(lastOp'.ret[2]))
        /\ disk_usage' = push(disk_usage, Val(lastOp'.ret[3])))]_vars

\* C19: once monitoring has been started, the user gets it back to Stopped
\* without leaving the program.
C19_StartedGetsStopped ==
  [](monitoring_active => <>(~monitoring_active \/ gui_pc = "exited"))

====
